---- MODULE Spec2Model ----
(***************************************************************************)
(* bugzilla2gitlab, bugzilla2gitlab/models.py: the IssueThread built from  *)
(* one Bugzilla bug record (Issue.create_description: description folding, *)
(* attachment registry, announcement reconciliation; Comment.load_fields)  *)
(* and its submission to GitLab (IssueThread.save, Issue.save,             *)
(* Comment.save, Issue.close), plus the text sanitizer needs_quoting.      *)
(*                                                                         *)
(* A text is a sequence of characters, each a one-character string.  The   *)
(* literal run "Created an attachment (id=" is kept as one element         *)
(* (CreatedPrefix), because it only ever occurs whole in the texts used.   *)
(***************************************************************************)
EXTENDS Integers, Sequences, FiniteSets, TLC

VARIABLES
    bug,                  \* the bug record as read (never written again)
    fields,               \* the dict handed to IssueThread; mutated in place
    conf,                 \* the module-global configuration
    pc,                   \* position of the run: new/loaded/comments/done/failed
    error,                \* the exception that ended the run, if any
    issue,                \* IssueThread.issue
    comments,             \* IssueThread.comments
    obsolete_attachments, \* create_description's list of obsolete ids
    next_comment,         \* index of the comment IssueThread.save is at
    isadmin,              \* GitLab's admin flag per user (set_user_isadmin)
    log,                  \* requests GitLab accepted, in order
    txt, once, twice, san_pc  \* needs_quoting applied once and twice

vars == <<bug, fields, conf, pc, error, issue, comments, obsolete_attachments,
          next_comment, isadmin, log, txt, once, twice, san_pc>>

buildVars == <<bug, fields, conf, pc, error, issue, comments,
               obsolete_attachments, next_comment, isadmin, log>>

sanVars == <<txt, once, twice, san_pc>>

----------------------------------------------------------------------------
(* Bounds *)

MaxLen == 3          \* longest text given to needs_quoting on its own
MaxComments == 3     \* longest long_desc array
MaxId == 1           \* largest attachment id of the reconciliation records
MaxAttachments == 3  \* longest attachment array of the registry records
MaxIid == 1          \* largest iid GitLab answers with

----------------------------------------------------------------------------
(* Characters and generic sequence helpers *)

NL == "\n"
CreatedPrefix == "Created an attachment (id="
Digits == <<"0", "1", "2", "3", "4", "5", "6", "7", "8", "9">>

IsDigit(c) == \E d \in 1..10 : Digits[d] = c

DigitVal(c) == (CHOOSE d \in 1..10 : Digits[d] = c) - 1

RECURSIVE Count(_, _)
Count(s, S) ==
    IF s = <<>> THEN 0
    ELSE (IF Head(s) \in S THEN 1 ELSE 0) + Count(Tail(s), S)

\* Python's `a in b` on two strings
IsSubstring(a, b) ==
    \E i \in 0..(Len(b) - Len(a)) : SubSeq(b, i + 1, i + Len(a)) = a

RECURSIVE SeqsUpTo(_, _)
SeqsUpTo(S, n) ==
    IF n = 0 THEN {<<>>}
    ELSE LET shorter == SeqsUpTo(S, n - 1)
         IN  shorter \cup {Append(s, x) : s \in {t \in shorter : Len(t) = n - 1}, x \in S}

----------------------------------------------------------------------------
(* needs_quoting *)

TriggerChars == {"#", ">", "_", "-", "~", "|", "*", "+", "@"}

PreOpen == <<"<", "p", "r", "e", ">">>
PreClose == <<"<", "/", "p", "r", "e", ">">>

HasTrigger(t) ==
    \/ \E i \in 1..Len(t) : t[i] \in TriggerChars
    \/ Count(t, {"=", CreatedPrefix}) > 1

\* a sanitizer that leaves an already wrapped text alone
needs_quoting_once(t) ==
    IF /\ Len(t) >= Len(PreOpen) + Len(PreClose)
       /\ SubSeq(t, 1, Len(PreOpen)) = PreOpen
       /\ SubSeq(t, Len(t) - Len(PreClose) + 1, Len(t)) = PreClose
    THEN t
    ELSE IF HasTrigger(t) THEN PreOpen \o t \o PreClose ELSE t

needs_quoting(t) ==
    IF HasTrigger(t) THEN PreOpen \o t \o PreClose ELSE t

----------------------------------------------------------------------------
(* re.split("\n*", text) and "\n\n".join(...), line 127 *)

RECURSIVE SkipNL(_)
SkipNL(t) == IF t # <<>> /\ Head(t) = NL THEN SkipNL(Tail(t)) ELSE t

RECURSIVE SkipLine(_)
SkipLine(t) == IF t # <<>> /\ Head(t) # NL THEN SkipLine(Tail(t)) ELSE t

\* the part of t in front of its first newline
FirstLine(t) == SubSeq(t, 1, Len(t) - Len(SkipLine(t)))

\* Python up to 3.6: only a non-empty run of newlines separates two pieces
RECURSIVE SplitOnRuns(_)
SplitOnRuns(t) ==
    LET rest == SkipLine(t)
    IN  IF rest = <<>> THEN <<FirstLine(t)>>
        ELSE <<FirstLine(t)>> \o SplitOnRuns(SkipNL(rest))

\* Python 3.7 and later: the empty match splits too, so every character is a
\* piece of its own and every run of newlines leaves an empty piece
RECURSIVE SplitUnits(_)
SplitUnits(t) ==
    IF t = <<>> THEN <<>>
    ELSE IF Head(t) = NL THEN <<<<>>>> \o SplitUnits(SkipNL(t))
    ELSE <<<<Head(t)>>>> \o SplitUnits(Tail(t))

SplitOnEmpty(t) == <<<<>>>> \o SplitUnits(t) \o <<<<>>>>

re_split(t, emptyMatchSplits) ==
    IF emptyMatchSplits THEN SplitOnEmpty(t) ELSE SplitOnRuns(t)

RECURSIVE Join(_, _)
Join(pieces, sep) ==
    IF pieces = <<>> THEN <<>>
    ELSE IF Len(pieces) = 1 THEN pieces[1]
    ELSE pieces[1] \o sep \o Join(Tail(pieces), sep)

ExtHeading == "\n## Extended Description \n"

\* a folding that takes the first comment as it is
ext_description_raw(text, emptyMatchSplits) ==
    <<ExtHeading>> \o Join(re_split(text, emptyMatchSplits), <<NL, NL>>)

\* lines 126-127: the heading and the re-spaced, sanitized first comment
ext_description_of(text, emptyMatchSplits) ==
    <<ExtHeading>> \o Join(re_split(needs_quoting(text), emptyMatchSplits), <<NL, NL>>)

----------------------------------------------------------------------------
(* Attachment.parse_comment_text and the boilerplate regex of line 162 *)

RECURSIVE DigitRun(_)
DigitRun(t) ==
    IF t # <<>> /\ IsDigit(Head(t)) THEN <<Head(t)>> \o DigitRun(Tail(t)) ELSE <<>>

RECURSIVE IntOf(_)
IntOf(ds) ==
    IF ds = <<>> THEN 0 ELSE 10 * IntOf(SubSeq(ds, 1, Len(ds) - 1)) + DigitVal(ds[Len(ds)])

\* re.match anchors at the start of the text; no match is False, which the
\* caller's truth test cannot tell from the integer 0
parse_comment_text(comment) ==
    IF comment # <<>> /\ Head(comment) = CreatedPrefix
    THEN LET ds == DigitRun(Tail(comment))
             after == SubSeq(comment, 2 + Len(ds), Len(comment))
         IN  IF ds # <<>> /\ after # <<>> /\ Head(after) = ")" THEN IntOf(ds) ELSE 0
    ELSE 0

\* re.sub("Created.*\(id=\d+\)(?:.*\n*){1,2}", "", txt, count=1) on a text that
\* parse_comment_text matched: the match starts at the first character and
\* takes the announcement line, the newlines after it, the next line and the
\* newlines after that
strip_announcement(t) == SkipNL(SkipLine(SkipNL(SkipLine(t))))

----------------------------------------------------------------------------
(* Errors *)

NoError == [kind |-> "none", id |-> 0, text |-> <<>>]
IndexError == [kind |-> "IndexError", id |-> 0, text |-> <<>>]
RequestError == [kind |-> "request", id |-> 0, text |-> <<>>]
KeyError(id) == [kind |-> "KeyError", id |-> id, text |-> <<>>]
ValidationError == [kind |-> "validation", id |-> 0, text |-> <<>>]

\* lines 158 and 168: "Match `id' found in comment `text', but attachment
\* does not exist!"
ConsistencyError(id, text) == [kind |-> "consistency", id |-> id, text |-> text]

----------------------------------------------------------------------------
(* Issue.create_description, lines 130-146: the attachment registry *)

\* Attachment.__init__ with __upload_attachment: the markdown is GitLab's
\* answer, or the placeholder of a dry run
Attachment(id, filename, dry_run) ==
    [id |-> id, filename |-> filename,
     markdown |-> IF dry_run THEN <<"[attachment](">> \o filename \o <<")">>
                  ELSE <<"[upload](">> \o filename \o <<")">>]

\* list.remove: drops the first element equal to x
RECURSIVE Remove(_, _)
Remove(s, x) ==
    IF s = <<>> THEN <<>>
    ELSE IF Head(s) = x THEN Tail(s)
    ELSE <<Head(s)>> \o Remove(Tail(s), x)

\* line 137: the registered names the new filename is a substring of
Matchs(attachment_files, filename) ==
    SelectSeq(attachment_files, LAMBDA x : IsSubstring(filename, x))

\* a registry loop that registers obsolete attachments as well
RECURSIVE registry_all(_, _, _)
registry_all(st, i, dry_run) ==
    IF i > Len(st.attachment) THEN st
    ELSE LET a == st.attachment[i]
         IN  registry_all([st EXCEPT
                 !.attachment_files = Append(@, a.filename),
                 !.attachments = (a.attachid :> Attachment(a.attachid, a.filename, dry_run)) @@ @],
                 i + 1, dry_run)

\* the loop of lines 133-146 from index i on; st holds fields["attachment"],
\* attachments, attachment_files and obsolete_attachments
RECURSIVE registry(_, _, _)
registry(st, i, dry_run) ==
    IF i > Len(st.attachment) THEN st
    ELSE LET a == st.attachment[i]
             matchs == Matchs(st.attachment_files, a.filename)
             filename == IF Len(matchs) = 1 THEN <<"x">> \o matchs[1] ELSE a.filename
             files == IF Len(matchs) = 1
                      THEN Append(Remove(st.attachment_files, matchs[1]), filename)
                      ELSE Append(st.attachment_files, filename)
         IN  IF ~a.isobsolete
             THEN registry([st EXCEPT
                      !.attachment[i].filename = filename,
                      !.attachment_files = files,
                      !.attachments = (a.attachid :> Attachment(a.attachid, filename, dry_run)) @@ @],
                      i + 1, dry_run)
             ELSE registry([st EXCEPT !.obsolete_attachments = Append(@, a.attachid)],
                      i + 1, dry_run)

EmptyRegistry(attachment) ==
    [attachment |-> attachment, attachments |-> <<>>,
     attachment_files |-> <<>>, obsolete_attachments |-> <<>>]

InSeq(x, s) == \E k \in 1..Len(s) : s[k] = x

\* an existence test that accepts every id
attachment_exists_any(id, attachments, obsolete) == TRUE

\* lines 155 and 160
attachment_exists(id, attachments, obsolete) ==
    id \in DOMAIN attachments \/ InSeq(id, obsolete)

----------------------------------------------------------------------------
(* Issue.create_description, lines 148-172: the announcements *)

\* the loop of lines 149-168 from index i on; st holds fields["long_desc"],
\* to_delete and the exception raised, if any
RECURSIVE scan(_, _, _, _, _)
scan(st, i, reporter, attachments, obsolete) ==
    IF i > Len(st.long_desc) THEN st
    ELSE LET comment == st.long_desc[i]
             attachment_id == parse_comment_text(comment.thetext)
             exists == attachment_exists(attachment_id, attachments, obsolete)
             raised == [st EXCEPT !.error = ConsistencyError(attachment_id, comment.thetext)]
         IN  IF attachment_id = 0
             THEN scan(st, i + 1, reporter, attachments, obsolete)
             ELSE IF comment.who = reporter
             THEN IF exists
                  THEN scan([st EXCEPT !.to_delete = Append(@, i)],
                            i + 1, reporter, attachments, obsolete)
                  ELSE raised
             ELSE IF exists
                  THEN scan([st EXCEPT
                                !.long_desc[i].thetext = strip_announcement(comment.thetext),
                                !.long_desc[i].attachid = attachment_id],
                            i + 1, reporter, attachments, obsolete)
                  ELSE raised

\* del s[i], with Python's index i counted from 1 here
Del(s, i) == SubSeq(s, 1, i - 1) \o SubSeq(s, i + 1, Len(s))

\* a deletion that walks to_delete front to back
RECURSIVE delete_forward(_, _)
delete_forward(long_desc, to_delete) ==
    IF to_delete = <<>> THEN long_desc
    ELSE delete_forward(IF Head(to_delete) <= Len(long_desc)
                        THEN Del(long_desc, Head(to_delete)) ELSE long_desc,
                        Tail(to_delete))

\* lines 171-172: for i in reversed(to_delete): del fields["long_desc"][i]
RECURSIVE delete_reversed(_, _)
delete_reversed(long_desc, to_delete) ==
    IF to_delete = <<>> THEN long_desc
    ELSE delete_reversed(Del(long_desc, to_delete[Len(to_delete)]),
                         SubSeq(to_delete, 1, Len(to_delete) - 1))

TableRows == "| key | value |"
AttachmentsRow == "| Attachments | ... |"

\* lines 124-125
folds(f) == f.reporter = f.long_desc[1].who /\ f.long_desc[1].thetext # <<>>

\* Issue.create_description on the dict f.  transferOk: every request of
\* Attachment.__upload_attachment is answered.  Yields the exception, the
\* dict as left behind, the registry, the obsolete ids and self.description.
create_description(f, dry_run, emptyMatchSplits, transferOk) ==
    IF f.long_desc = <<>>
    THEN [error |-> IndexError, fields |-> f, attachments |-> <<>>,
          obsolete_attachments |-> <<>>, description |-> <<>>]
    ELSE
    LET folded == folds(f)
        ext_description == IF folded
                           THEN ext_description_of(f.long_desc[1].thetext, emptyMatchSplits)
                           ELSE <<>>
        f1 == IF folded THEN [f EXCEPT !.long_desc = Tail(@)] ELSE f
        reg == registry(EmptyRegistry(f1.attachment), 1, dry_run)
        f2 == [f1 EXCEPT !.attachment = reg.attachment]
        sc == scan([long_desc |-> f2.long_desc, to_delete |-> <<>>, error |-> NoError],
                   1, f2.reporter, reg.attachments, reg.obsolete_attachments)
        f3 == [f2 EXCEPT !.long_desc = sc.long_desc]
        f4 == [f3 EXCEPT !.long_desc = delete_reversed(@, sc.to_delete)]
    IN  IF DOMAIN reg.attachments # {} /\ ~transferOk
        THEN [error |-> RequestError, fields |-> f1, attachments |-> <<>>,
              obsolete_attachments |-> <<>>, description |-> <<>>]
        ELSE IF sc.error # NoError
        THEN [error |-> sc.error, fields |-> f3, attachments |-> reg.attachments,
              obsolete_attachments |-> reg.obsolete_attachments, description |-> <<>>]
        ELSE [error |-> NoError, fields |-> f4, attachments |-> reg.attachments,
              obsolete_attachments |-> reg.obsolete_attachments,
              description |-> <<TableRows>>
                              \o (IF DOMAIN reg.attachments # {} THEN <<AttachmentsRow>> ELSE <<>>)
                              \o ext_description]

----------------------------------------------------------------------------
(* Comment.__init__ / load_fields and IssueThread.load_objects *)

NoComment == [sudo |-> "", body |-> <<>>, created_at |-> 0, issue_id |-> 0,
              error |-> NoError]

\* lines 256-272; issue_id is bound later, by IssueThread.save
Comment(c, attachments, cf) ==
    LET by == IF cf.bugzilla_users[c.who] = cf.gitlab_misc_user
              THEN <<"By ", c.who, NL, NL>> ELSE <<>>
    IN  IF c.attachid # 0 /\ c.attachid \notin DOMAIN attachments
        THEN [NoComment EXCEPT !.error = KeyError(c.attachid)]
        ELSE [sudo |-> cf.bugzilla_users[c.who],
              body |-> by \o (IF c.attachid # 0
                              THEN attachments[c.attachid].markdown \o <<NL>> ELSE <<>>)
                         \o needs_quoting(c.thetext),
              created_at |-> c.bug_when,
              issue_id |-> 0,
              error |-> NoError]

\* lines 32-34
RECURSIVE load_comments(_, _, _, _)
load_comments(long_desc, attachments, cf, acc) ==
    IF long_desc = <<>> THEN [comments |-> acc, error |-> NoError]
    ELSE IF Head(long_desc).thetext = <<>>
    THEN load_comments(Tail(long_desc), attachments, cf, acc)
    ELSE LET c == Comment(Head(long_desc), attachments, cf)
         IN  IF c.error # NoError THEN [comments |-> acc, error |-> c.error]
             ELSE load_comments(Tail(long_desc), attachments, cf, Append(acc, c))

NoIssue == [title |-> "", description |-> <<>>, status |-> "", sudo |-> "",
            iid |-> 0, attachments |-> <<>>]

\* what the run depends on besides the record: which re.split the
\* interpreter has (asked only when the first comment is folded), and whether
\* the file transfers are answered (asked only for a non-obsolete attachment)
ReSplitChoices(f) ==
    IF f.long_desc # <<>> /\ folds(f) THEN BOOLEAN ELSE {FALSE}

TransferChoices(f) ==
    IF \E k \in 1..Len(f.attachment) : ~f.attachment[k].isobsolete
    THEN BOOLEAN ELSE {TRUE}

\* IssueThread.__init__: Issue(fields), then one Comment per entry left in
\* fields["long_desc"] whose text is not empty
load_objects ==
    /\ pc = "new"
    /\ \E emptyMatchSplits \in ReSplitChoices(fields), transferOk \in TransferChoices(fields) :
         \E d \in {create_description(fields, conf.dry_run, emptyMatchSplits, transferOk)} :
         \E cs \in {load_comments(d.fields.long_desc, d.attachments, conf, <<>>)} :
         LET failed == d.error # NoError \/ cs.error # NoError
         IN  /\ fields' = d.fields
             /\ obsolete_attachments' = d.obsolete_attachments
             /\ issue' = IF d.error # NoError THEN NoIssue
                         ELSE [title |-> fields.short_desc,
                               description |-> d.description,
                               status |-> fields.bug_status,
                               sudo |-> conf.bugzilla_users[fields.reporter],
                               iid |-> 0,
                               attachments |-> d.attachments]
             /\ comments' = IF failed THEN <<>> ELSE cs.comments
             /\ error' = IF d.error # NoError THEN d.error ELSE cs.error
             /\ pc' = IF failed THEN "failed" ELSE "loaded"
    /\ UNCHANGED <<bug, conf, next_comment, isadmin, log, sanVars>>

----------------------------------------------------------------------------
(* Submission: Issue.save, Comment.save, Issue.close, IssueThread.save *)

\* _perform_request returns when the request was answered with 200 or 201,
\* or without sending anything in a dry run; otherwise it raises
Answered(dry_run, ok) == dry_run \/ ok

\* the PUT of set_user_isadmin, which is sent in a dry run too
set_user_isadmin(adm, user, state) == [adm EXCEPT ![user] = state]

DryRunIid == 50

\* Issue.validate, lines 199-204
issue_validates(i) == i.title # "" /\ i.description # <<>> /\ i.status # ""

\* Comment.validate, lines 274-278
comment_validates(c) == c.body # <<>> /\ c.issue_id # 0

\* Issue.save on the issue i: the exception if any, GitLab's admin flags and
\* accepted requests afterwards, and self.iid
issue_save(i, cf, adm, lg, grantOk, postOk, revokeOk, iid) ==
    LET elevate == ~cf.gitlab_user_admins[i.sudo]
        adm1 == IF elevate THEN set_user_isadmin(adm, i.sudo, TRUE) ELSE adm
        answer == IF cf.dry_run THEN DryRunIid ELSE iid
        lg1 == Append(lg, [kind |-> "issue", sudo |-> i.sudo, iid |-> answer,
                           created_at |-> 0])
        adm2 == IF elevate THEN set_user_isadmin(adm1, i.sudo, FALSE) ELSE adm1
    IN  IF ~issue_validates(i)
        THEN [error |-> ValidationError, isadmin |-> adm, log |-> lg, iid |-> 0]
        ELSE IF elevate /\ ~grantOk
        THEN [error |-> RequestError, isadmin |-> adm, log |-> lg, iid |-> 0]
        ELSE IF ~Answered(cf.dry_run, postOk)
        THEN [error |-> RequestError, isadmin |-> adm1, log |-> lg, iid |-> 0]
        ELSE IF elevate /\ ~revokeOk
        THEN [error |-> RequestError, isadmin |-> adm1, log |-> lg1, iid |-> 0]
        ELSE [error |-> NoError, isadmin |-> adm2, log |-> lg1,
              iid |-> answer]

\* Comment.save on the comment c, its issue_id bound
comment_save(c, cf, adm, lg, grantOk, postOk, revokeOk) ==
    LET elevate == ~cf.gitlab_user_admins[c.sudo]
        adm1 == IF elevate THEN set_user_isadmin(adm, c.sudo, TRUE) ELSE adm
        lg1 == Append(lg, [kind |-> "note", sudo |-> c.sudo, iid |-> c.issue_id,
                           created_at |-> c.created_at])
        adm2 == IF elevate THEN set_user_isadmin(adm1, c.sudo, FALSE) ELSE adm1
    IN  IF ~comment_validates(c)
        THEN [error |-> ValidationError, isadmin |-> adm, log |-> lg]
        ELSE IF elevate /\ ~grantOk
        THEN [error |-> RequestError, isadmin |-> adm, log |-> lg]
        ELSE IF ~Answered(cf.dry_run, postOk)
        THEN [error |-> RequestError, isadmin |-> adm1, log |-> lg]
        ELSE IF elevate /\ ~revokeOk
        THEN [error |-> RequestError, isadmin |-> adm1, log |-> lg1]
        ELSE [error |-> NoError, isadmin |-> adm2, log |-> lg1]

\* line 41: self.issue.save()
IssueSave ==
    /\ pc = "loaded"
    /\ \E grantOk \in BOOLEAN, postOk \in BOOLEAN, revokeOk \in BOOLEAN, iid \in 1..MaxIid :
         \E r \in {issue_save(issue, conf, isadmin, log, grantOk, postOk, revokeOk, iid)} :
             /\ isadmin' = r.isadmin
             /\ log' = r.log
             /\ error' = r.error
             /\ issue' = [issue EXCEPT !.iid = r.iid]
             /\ pc' = IF r.error = NoError THEN "comments" ELSE "failed"
    /\ next_comment' = 1
    /\ UNCHANGED <<bug, fields, conf, comments, obsolete_attachments, sanVars>>

\* lines 43-45: one round of the loop
CommentSave ==
    /\ pc = "comments"
    /\ next_comment <= Len(comments)
    /\ \E grantOk \in BOOLEAN, postOk \in BOOLEAN, revokeOk \in BOOLEAN :
         LET j == next_comment
             c == [comments[j] EXCEPT !.issue_id = issue.iid]
         IN  \E r \in {comment_save(c, conf, isadmin, log, grantOk, postOk, revokeOk)} :
             /\ comments' = [comments EXCEPT ![j] = c]
             /\ isadmin' = r.isadmin
             /\ log' = r.log
             /\ error' = r.error
             /\ pc' = IF r.error = NoError THEN "comments" ELSE "failed"
    /\ next_comment' = next_comment + 1
    /\ UNCHANGED <<bug, fields, conf, issue, obsolete_attachments, sanVars>>

\* a test that closes every issue
closes_always(i) == TRUE

\* line 48
closes(i) == i.status = "RESOLVED"

\* lines 48-49 with Issue.close, for a resolved bug
IssueClose ==
    /\ pc = "comments"
    /\ next_comment > Len(comments)
    /\ closes(issue)
    /\ \E putOk \in BOOLEAN :
         IF Answered(conf.dry_run, putOk)
         THEN /\ log' = Append(log, [kind |-> "close", sudo |-> issue.sudo,
                                     iid |-> issue.iid, created_at |-> 0])
              /\ pc' = "done"
              /\ error' = error
         ELSE /\ log' = log
              /\ pc' = "failed"
              /\ error' = RequestError
    /\ UNCHANGED <<bug, fields, conf, issue, comments, obsolete_attachments,
                   next_comment, isadmin, sanVars>>

\* line 48, for any other status: IssueThread.save returns
SaveReturns ==
    /\ pc = "comments"
    /\ next_comment > Len(comments)
    /\ ~closes(issue)
    /\ pc' = "done"
    /\ UNCHANGED <<bug, fields, conf, error, issue, comments, obsolete_attachments,
                   next_comment, isadmin, log, sanVars>>

----------------------------------------------------------------------------
(* needs_quoting on its own *)

Sanitize ==
    /\ san_pc = "start"
    /\ once' = needs_quoting(txt)
    /\ san_pc' = "once"
    /\ UNCHANGED <<txt, twice, buildVars>>

SanitizeAgain ==
    /\ san_pc = "once"
    /\ twice' = needs_quoting(once)
    /\ san_pc' = "twice"
    /\ UNCHANGED <<txt, once, buildVars>>

----------------------------------------------------------------------------
(* Records, configurations and the specifications *)

BugzillaUsers == {"alice", "bob"}
GitlabUsers == {"alice", "bob", "misc"}
Reporter == "alice"

Ann(n) == <<CreatedPrefix, Digits[n + 1], ")">>

\* long_desc arrays of at most n entries over the (who, thetext) pairs in
\* entries; bug_when is the entry's place in the bug's history
CommentArrays(entries, n) ==
    UNION {{[i \in 1..k |-> [who |-> e[i][1], thetext |-> e[i][2],
                             bug_when |-> i, attachid |-> 0]] :
            e \in [1..k -> entries]} : k \in 0..n}

\* attachment arrays of at most n entries with ids unique within the array
AttachmentArrays(ids, names, n) ==
    UNION {{[i \in 1..k |-> [attachid |-> a[i], filename |-> f[i], isobsolete |-> o[i]]] :
            a \in {x \in [1..k -> ids] : \A i, j \in 1..k : i # j => x[i] # x[j]},
            f \in [1..k -> names], o \in [1..k -> BOOLEAN]} : k \in 0..n}

IdentityUsers == [u \in BugzillaUsers |-> u]

Conf(dry_run, admins, users) ==
    [dry_run |-> dry_run, gitlab_user_admins |-> admins,
     bugzilla_users |-> users, gitlab_misc_user |-> "misc"]

BugRecord(status, title, long_desc, attachment) ==
    [reporter |-> Reporter, bug_status |-> status, short_desc |-> title,
     long_desc |-> long_desc, attachment |-> attachment]

EmptyBug == BugRecord("NEW", "t", <<>>, <<>>)

InitSanitizeVars ==
    /\ txt = <<>>
    /\ once = <<>>
    /\ twice = <<>>
    /\ san_pc = "off"

\* the state IssueThread(config, b) starts from
InitThread(b, cf) ==
    /\ bug = b
    /\ fields = b
    /\ conf = cf
    /\ pc = "new"
    /\ error = NoError
    /\ issue = NoIssue
    /\ comments = <<>>
    /\ obsolete_attachments = <<>>
    /\ next_comment = 0
    /\ isadmin = cf.gitlab_user_admins
    /\ log = <<>>

\* records for the submission: plain comments, one of them empty
SaveEntries == {<<"alice", <<"a">>>>, <<"bob", <<"a">>>>, <<"bob", <<>>>>}

Init ==
    /\ \E status \in {"RESOLVED", "NEW"}, title \in {"", "t"},
          long_desc \in CommentArrays(SaveEntries, MaxComments),
          dry_run \in BOOLEAN, admins \in [GitlabUsers -> BOOLEAN],
          users \in {IdentityUsers, [IdentityUsers EXCEPT !["bob"] = "misc"]} :
         InitThread(BugRecord(status, title, long_desc, <<>>), Conf(dry_run, admins, users))
    /\ InitSanitizeVars

Next == load_objects \/ IssueSave \/ CommentSave \/ IssueClose \/ SaveReturns

Spec == Init /\ [][Next]_vars

\* records for the reconciliation: announcements of the ids 0..MaxId by the
\* reporter and by someone else, alone and (for the ids an attachment can
\* have) followed by a file line and a remark
Remark == <<NL, "f", NL, NL, "r", "#">>

BuildEntries ==
    {<<w, t>> : w \in BugzillaUsers, t \in {<<>>, <<"a", NL, "#">>}}
    \cup {<<w, Ann(n)>> : w \in BugzillaUsers, n \in 0..MaxId}
    \cup {<<"bob", Ann(n) \o Remark>> : n \in 1..MaxId}

\* every id of 1..MaxId is absent, active or obsolete
IdStates == [1..MaxId -> {"absent", "active", "obsolete"}]

RECURSIVE AttachmentsOf(_, _)
AttachmentsOf(st, id) ==
    IF id > MaxId THEN <<>>
    ELSE (IF st[id] = "absent" THEN <<>>
          ELSE <<[attachid |-> id, filename |-> <<"a">>,
                  isobsolete |-> (st[id] = "obsolete")]>>)
         \o AttachmentsOf(st, id + 1)

InitReconcile ==
    \E long_desc \in CommentArrays(BuildEntries, MaxComments), st \in IdStates :
        InitThread(BugRecord("NEW", "t", long_desc, AttachmentsOf(st, 1)),
                   Conf(TRUE, [u \in GitlabUsers |-> FALSE], IdentityUsers))

\* records for the registry: filenames that repeat or contain one another
FileNames == {<<"a">>, <<"x", "a">>}

InitRegistry ==
    \E attachment \in AttachmentArrays(1..MaxAttachments, FileNames, MaxAttachments),
       dry_run \in BOOLEAN :
        InitThread(BugRecord("NEW", "t",
                             <<[who |-> "bob", thetext |-> <<"a">>, bug_when |-> 1,
                                attachid |-> 0]>>, attachment),
                   Conf(dry_run, [u \in GitlabUsers |-> FALSE], IdentityUsers))

InitBuild == (InitReconcile \/ InitRegistry) /\ InitSanitizeVars

NextBuild == load_objects

SpecBuild == InitBuild /\ [][NextBuild]_vars

Alphabet == TriggerChars \cup {"=", "a", "<", "/"}

InitSanitize ==
    /\ InitThread(EmptyBug, Conf(TRUE, [u \in GitlabUsers |-> FALSE], IdentityUsers))
    /\ txt \in SeqsUpTo(Alphabet, MaxLen)
    /\ once = <<>>
    /\ twice = <<>>
    /\ san_pc = "start"

NextSanitize == Sanitize \/ SanitizeAgain

SpecSanitize == InitSanitize /\ [][NextSanitize]_vars

----------------------------------------------------------------------------
(* Vocabulary of the properties *)

\* create_description has returned: the issue has its description and registry
Described == issue # NoIssue

\* the text starts with "Created an attachment (id=N)"
IsAnnouncement(t) ==
    /\ t # <<>>
    /\ Head(t) = CreatedPrefix
    /\ DigitRun(Tail(t)) # <<>>
    /\ Len(t) >= 2 + Len(DigitRun(Tail(t)))
    /\ t[2 + Len(DigitRun(Tail(t)))] = ")"

AnnouncedId(t) == IntOf(DigitRun(Tail(t)))

ActiveIds(b) ==
    {b.attachment[k].attachid : k \in {j \in 1..Len(b.attachment) : ~b.attachment[j].isobsolete}}

ObsoleteIds(b) ==
    {b.attachment[k].attachid : k \in {j \in 1..Len(b.attachment) : b.attachment[j].isobsolete}}

AllIds(b) == ActiveIds(b) \cup ObsoleteIds(b)

\* the first comment is the reporter's and has text
FirstIsDescription(b) ==
    /\ b.long_desc # <<>>
    /\ b.long_desc[1].who = b.reporter
    /\ b.long_desc[1].thetext # <<>>

\* the comment stream of the record once the description is taken out
PostFold(b) == IF FirstIsDescription(b) THEN Tail(b.long_desc) ELSE b.long_desc

\* an announcement of an attachment the record does not have
Dangling(b, c) ==
    IsAnnouncement(c.thetext) /\ AnnouncedId(c.thetext) \notin AllIds(b)

\* an announcement by someone other than the reporter of an attachment the
\* record has
ForeignAnnouncement(b, c) ==
    /\ c.who # b.reporter
    /\ IsAnnouncement(c.thetext)
    /\ AnnouncedId(c.thetext) \in AllIds(b)

\* an announcement by the reporter of an attachment the record has
ReporterAnnouncement(b, c) ==
    /\ c.who = b.reporter
    /\ IsAnnouncement(c.thetext)
    /\ AnnouncedId(c.thetext) \in AllIds(b)

RECURSIVE WithoutNL(_)
WithoutNL(t) ==
    IF t = <<>> THEN <<>>
    ELSE IF Head(t) = NL THEN WithoutNL(Tail(t))
    ELSE <<Head(t)>> \o WithoutNL(Tail(t))

Whens(cs) == [k \in 1..Len(cs) |-> cs[k].bug_when]

Notes == SelectSeq(log, LAMBDA e : e.kind = "note")

----------------------------------------------------------------------------
(* C1: submission order *)

\* C1: the issue is accepted before any of its comments; the comments are
\* accepted in the order of IssueThread.comments, each under the issue's
\* iid; a close is sent only for a RESOLVED bug, after the issue and all of
\* its comments, and a save that returns has sent it exactly when the bug is
\* RESOLVED.
C1_SubmissionOrder ==
    /\ log # <<>> =>
         /\ log[1].kind = "issue"
         /\ \A k \in 2..Len(log) : log[k].kind # "issue"
    /\ \A k \in 1..Len(Notes) :
         /\ k <= Len(comments)
         /\ log[k + 1] = Notes[k]
         /\ Notes[k].created_at = comments[k].created_at
         /\ Notes[k].iid = log[1].iid
         /\ Notes[k].iid = issue.iid
         /\ issue.iid # 0
         /\ k > 1 => Notes[k - 1].created_at < Notes[k].created_at
    /\ \A k \in 1..Len(log) : log[k].kind = "close" =>
         /\ issue.status = "RESOLVED"
         /\ k = Len(log)
         /\ k = Len(comments) + 2
         /\ log[k].iid = log[1].iid
    /\ pc = "done" =>
         /\ Len(Notes) = Len(comments)
         /\ (log[Len(log)].kind = "close") <=> (bug.bug_status = "RESOLVED")

C1_Witness ==
    /\ pc = "done"
    /\ bug.bug_status = "RESOLVED"
    /\ Len(comments) >= 2
    /\ log[Len(log)].kind = "close"
    /\ ~conf.dry_run

----------------------------------------------------------------------------
(* C2, C3: the attachment registry *)

\* C2: once the registry is built, every non-obsolete attachment id is a key
\* of the registry (holding the Attachment of that id) and not in the
\* obsolete list, the registry has no other key, and every obsolete id is in
\* the obsolete list once and is no key of the registry.
C2_RegistryPartition ==
    Described =>
        /\ DOMAIN issue.attachments = ActiveIds(bug)
        /\ Cardinality(DOMAIN issue.attachments)
             = Len(SelectSeq(bug.attachment, LAMBDA a : ~a.isobsolete))
        /\ \A id \in ActiveIds(bug) :
             /\ issue.attachments[id].id = id
             /\ ~InSeq(id, obsolete_attachments)
        /\ \A id \in ObsoleteIds(bug) :
             /\ id \notin DOMAIN issue.attachments
             /\ Count(obsolete_attachments, {id}) = 1
        /\ \A k \in 1..Len(obsolete_attachments) :
             obsolete_attachments[k] \in ObsoleteIds(bug)

C2_Witness ==
    /\ Described
    /\ Cardinality(ActiveIds(bug)) >= 2
    /\ ObsoleteIds(bug) # {}
    /\ Len(obsolete_attachments) >= 1

\* C3: the display filenames of the Attachments in the registry are pairwise
\* distinct.
C3_DistinctFilenames ==
    Described =>
        \A i, j \in DOMAIN issue.attachments :
            i # j => issue.attachments[i].filename # issue.attachments[j].filename

----------------------------------------------------------------------------
(* C4: announcements of attachments the record does not have *)

\* C4 as stated: whenever any comment of the bug record announces an id that
\* is neither active nor obsolete, building the thread fails.
C4_AnyCommentFails ==
    pc # "new" =>
        \A k \in 1..Len(bug.long_desc) :
            Dangling(bug, bug.long_desc[k]) => pc = "failed"

\* the comments of the stream s that announce a non-zero id the record b
\* does not have, by their place in s
DanglingAt(b, s) ==
    {k \in 1..Len(s) : Dangling(b, s[k]) /\ AnnouncedId(s[k].thetext) # 0}

Least(S) == CHOOSE k \in S : \A j \in S : k <= j

\* C4 amended: whenever a comment that is left in the stream after the
\* description folding announces a non-zero id that is neither active nor
\* obsolete, building the thread fails: with the transfer error of an
\* attachment, or else with the data-consistency error that names the id and
\* the text of the first such comment.
C4_RemainingCommentFails ==
    pc # "new" =>
        LET stream == PostFold(bug)
            dangling == DanglingAt(bug, stream)
        IN  dangling # {} =>
                /\ pc = "failed"
                /\ comments = <<>>
                /\ error.kind \in {"consistency", "request"}
                /\ error.kind = "consistency" =>
                     /\ error.id = AnnouncedId(stream[Least(dangling)].thetext)
                     /\ error.text = stream[Least(dangling)].thetext

C4_Witness ==
    /\ pc = "failed"
    /\ error.kind = "consistency"
    /\ FirstIsDescription(bug)
    /\ \E k \in 2..Len(PostFold(bug)) :
         /\ Dangling(bug, PostFold(bug)[k])
         /\ error.text = PostFold(bug)[k].thetext
         /\ error.id = AnnouncedId(PostFold(bug)[k].thetext)
         /\ error.id # 0

----------------------------------------------------------------------------
(* C5, C9: announcements by someone other than the reporter *)

\* C5: in a thread that was built, every announcement by someone other than
\* the reporter whose id resolves is left in the stream with its boilerplate
\* stripped and the id as its tag, and has its Comment in
\* IssueThread.comments, also when the stripping left no text.
C5_ForeignAnnouncementKept ==
    pc = "loaded" =>
        \A k \in 1..Len(PostFold(bug)) :
            LET c == PostFold(bug)[k]
            IN  ForeignAnnouncement(bug, c) =>
                    /\ \E j \in 1..Len(fields.long_desc) :
                         /\ fields.long_desc[j].bug_when = c.bug_when
                         /\ fields.long_desc[j].thetext = strip_announcement(c.thetext)
                         /\ fields.long_desc[j].attachid = AnnouncedId(c.thetext)
                    /\ \E j \in 1..Len(comments) : comments[j].created_at = c.bug_when

\* C9: an announcement by someone other than the reporter of an obsolete
\* attachment raises no error while its Comment is constructed, and when it
\* carries a remark the thread is built and holds the Comment, tagged with
\* the attachment.
C9_ObsoleteTargetBuilds ==
    pc # "new" =>
        \A k \in 1..Len(PostFold(bug)) :
            LET c == PostFold(bug)[k]
            IN  (ForeignAnnouncement(bug, c) /\ AnnouncedId(c.thetext) \in ObsoleteIds(bug)) =>
                    /\ error.kind # "KeyError"
                    /\ (strip_announcement(c.thetext) # <<>> /\ error.kind = "none") =>
                         \E j \in 1..Len(comments) :
                             /\ comments[j].created_at = c.bug_when
                             /\ Len(comments[j].body) > Len(needs_quoting(strip_announcement(c.thetext)))

----------------------------------------------------------------------------
(* C6: description folding *)

\* the description holds, after the heading, the characters of t in order
UnderHeading(description, t) ==
    \E h \in 1..Len(description) :
        /\ description[h] = ExtHeading
        /\ WithoutNL(SubSeq(description, h + 1, Len(description))) = WithoutNL(t)

Sanitized(t) ==
    IF (\E i \in 1..Len(t) : t[i] \in TriggerChars) \/ Count(t, {"=", CreatedPrefix}) > 1
    THEN <<"<", "p", "r", "e", ">">> \o t \o <<"<", "/", "p", "r", "e", ">">>
    ELSE t

\* the first comment of the record is not in the stream any more, and the
\* description, once built, carries its sanitized text under the heading
FirstFolded ==
    /\ \A k \in 1..Len(fields.long_desc) :
         fields.long_desc[k].bug_when # bug.long_desc[1].bug_when
    /\ \A k \in 1..Len(comments) : comments[k].created_at # bug.long_desc[1].bug_when
    /\ Described => UnderHeading(issue.description, Sanitized(bug.long_desc[1].thetext))

----------------------------------------------------------------------------
(* C7: needs_quoting twice *)

\* C7 as stated: a second application changes nothing.
C7_Idempotent == san_pc = "twice" => twice = once

\* C7 amended: a second application changes nothing exactly when the first
\* one did not wrap; a text that was wrapped is wrapped once more.
C7_IdempotentIffUnwrapped ==
    san_pc = "twice" =>
        /\ (twice = once) <=> (once = txt)
        /\ once # txt =>
             /\ once = <<"<", "p", "r", "e", ">">> \o txt \o <<"<", "/", "p", "r", "e", ">">>
             /\ twice = <<"<", "p", "r", "e", ">">> \o once \o <<"<", "/", "p", "r", "e", ">">>

C7_Witness ==
    /\ san_pc = "twice"
    /\ once # txt
    /\ Len(twice) = Len(txt) + 22

----------------------------------------------------------------------------
(* C8: what the reconciliation removes *)

\* C8: once create_description has returned, the stream is the post-folding
\* stream of the record without the reporter's announcements of attachments
\* the record has, in the same order; a comment that is kept and is no
\* announcement is kept as it was.
C8_RemovesExactlyReporterAnnouncements ==
    Described =>
        LET kept == SelectSeq(PostFold(bug), LAMBDA c : ~ReporterAnnouncement(bug, c))
        IN  /\ Whens(fields.long_desc) = Whens(kept)
            /\ \A k \in 1..Len(kept) :
                 ~IsAnnouncement(kept[k].thetext) => fields.long_desc[k] = kept[k]

C8_Witness ==
    /\ Described
    /\ Len(PostFold(bug)) >= 3
    /\ Len(fields.long_desc) = Len(PostFold(bug)) - 2
    /\ ~ReporterAnnouncement(bug, PostFold(bug)[1])

----------------------------------------------------------------------------
(* C10: admin elevation *)

\* C10: between the save operations, no user that the configuration lists
\* as non-admin is an admin in GitLab.
C10_ElevationRevoked ==
    \A u \in GitlabUsers : ~conf.gitlab_user_admins[u] => ~isadmin[u]

====
